---- MODULE Spec2Model ----
(***************************************************************************)
(* App Runner VPC Ingress Connection                                       *)
(* (packages/@aws-cdk/aws-apprunner-alpha/lib/vpc-ingress-connection.ts).  *)
(*                                                                         *)
(* Three entry points: the constructor (validate the name, create the      *)
(* CfnVpcIngressConnection, bind the four attributes), and the two imports *)
(* fromVpcIngressConnectionAttributes and fromArn.                         *)
(*                                                                         *)
(* A string is a sequence of one-character strings.  A value that may be   *)
(* a token is a record: Concrete(s), Pending(s) (an unresolved token that  *)
(* resolves to s at synthesis/deploy time), Undefined (the property is     *)
(* absent), or Attr(a, r) (attribute a of the resource created from        *)
(* request r, known only after deployment).                                *)
(***************************************************************************)
EXTENDS Integers, Sequences, FiniteSets, TLC

VARIABLES calls, requests

vars == <<calls, requests>>

\* ------------------------------------------------------------------ bounds
MaxCalls == 3
MaxShortLen == 5
MaxArnLen == 6
LongSlack == 2

\* ------------------------------------------------------- program constants
MinNameLength == 4
MaxNameLength == 40

\* ------------------------------------------------------------------ values
Concrete(s) == [tag |-> "Concrete", val |-> s]
Pending(s) == [tag |-> "Pending", val |-> s]
Undefined == [tag |-> "Undefined"]
Attr(a, r) == [tag |-> "Pending", attr |-> a, of |-> r]

Rep(c, n) == [i \in 1..n |-> c]
SeqsUpTo(S, n) == UNION {[1..k -> S] : k \in 0..n}

\* ------------------------------------------------- the name's regex, line 154
Letters ==
    {"a","b","c","d","e","f","g","h","i","j","k","l","m",
     "n","o","p","q","r","s","t","u","v","w","x","y","z",
     "A","B","C","D","E","F","G","H","I","J","K","L","M",
     "N","O","P","Q","R","S","T","U","V","W","X","Y","Z"}
Digits == {"0","1","2","3","4","5","6","7","8","9"}

\* [A-Za-z0-9]
IsAlnum(c) == c \in Letters \cup Digits
\* [A-Za-z0-9\-_]
IsNameChar(c) == IsAlnum(c) \/ c = "-" \/ c = "_"

\* a plausible slip: the first character is not singled out, /^[A-Za-z0-9\-_]*$/
NameRegexTestUnanchored(s) == \A i \in 1..Len(s) : IsNameChar(s[i])
\* /^[A-Za-z0-9][A-Za-z0-9\-_]*$/.test(s)
NameRegexTest(s) ==
    /\ Len(s) >= 1
    /\ IsAlnum(s[1])
    /\ \A i \in 2..Len(s) : IsNameChar(s[i])

\* ----------------------------------------------------------------- errors
NoError == [kind |-> "none"]
InvalidNameLength(n) == [kind |-> "InvalidNameLength", got |-> n]
InvalidNameFormat(s) == [kind |-> "InvalidNameFormat", got |-> s]

\* Token.isUnresolved(x)
IsUnresolved(v) == v.tag = "Pending"

\* a plausible slip: the Token.isUnresolved test is left out of line 146
ShouldValidateNoTokenTest(name) == name.tag # "Undefined"
\* a plausible slip: a class-level flag makes only the first call validate
ShouldValidateOnce(name) ==
    name.tag # "Undefined" /\ ~IsUnresolved(name) /\ calls = <<>>
\* line 146: name !== undefined && !Token.isUnresolved(name)
ShouldValidate(name) == name.tag # "Undefined" /\ ~IsUnresolved(name)

\* a plausible slip: '>' written as '>='
LengthOutOfRangeOffByOne(n) == n < MinNameLength \/ n >= MaxNameLength
\* line 148
LengthOutOfRange(n) == n < MinNameLength \/ n > MaxNameLength

\* a plausible slip: the two checks in the other order
CheckNameFormatFirst(s) ==
    IF ~NameRegexTest(s) THEN InvalidNameFormat(s)
    ELSE IF LengthOutOfRange(Len(s)) THEN InvalidNameLength(Len(s))
    ELSE NoError
\* lines 148-158: the two throws, in order
CheckName(s) ==
    IF LengthOutOfRange(Len(s)) THEN InvalidNameLength(Len(s))
    ELSE IF ~NameRegexTest(s) THEN InvalidNameFormat(s)
    ELSE NoError

\* lines 146-159
ValidateName(name) ==
    IF ShouldValidate(name) THEN CheckName(name.val) ELSE NoError

\* ------------------------------------------------------ collaborators
\* Resource.physicalName: the given name (concrete or token), or a token
\* that stands for "let the service assign the name".
UseAssignedName == [tag |-> "Pending", attr |-> "AssignedName"]
PhysicalName(name) == IF name.tag = "Undefined" THEN UseAssignedName ELSE name

\* CfnVpcIngressConnection: the attributes the created resource reflects.
CfnVpcIngressConnection(req) ==
    [ref |-> Attr("Ref", req),
     attrVpcIngressConnectionArn |-> Attr("VpcIngressConnectionArn", req),
     attrDomainName |-> Attr("DomainName", req),
     attrStatus |-> Attr("Status", req)]

\* String.prototype.split with a one-character separator
RECURSIVE SplitFrom(_, _, _, _)
SplitFrom(d, s, cur, i) ==
    IF i > Len(s) THEN <<cur>>
    ELSE IF s[i] = d THEN <<cur>> \o SplitFrom(d, s, <<>>, i + 1)
    ELSE SplitFrom(d, s, Append(cur, s[i]), i + 1)

\* Fn.split: the list of segments; of a token, a token list that resolves
\* to the segments of the resolved string.
FnSplit(d, v) == [tag |-> v.tag, parts |-> SplitFrom(d, v.val, <<>>, 1)]
\* Fn.select: the element at a zero-based index (undefined when out of range)
FnSelect(i, list) ==
    IF i + 1 \in 1..Len(list.parts)
    THEN [tag |-> list.tag, val |-> list.parts[i + 1]]
    ELSE Undefined

\* ------------------------------------------------------ the constructor
\* a plausible slip: vpcId and vpcEndpointId exchanged
CfnPropsSwapped(props, physicalName) ==
    [ingressVpcConfiguration |->
        [vpcEndpointId |-> props.vpc.vpcId,
         vpcId |-> props.interfaceVpcEndpoint.vpcEndpointId],
     serviceArn |-> props.service.serviceArn,
     vpcIngressConnectionName |-> physicalName]
\* lines 161-168
CfnProps(props, physicalName) ==
    [ingressVpcConfiguration |->
        [vpcEndpointId |-> props.interfaceVpcEndpoint.vpcEndpointId,
         vpcId |-> props.vpc.vpcId],
     serviceArn |-> props.service.serviceArn,
     vpcIngressConnectionName |-> physicalName]

\* lines 170-173
ResourceHandle(resource) ==
    [vpcIngressConnectionArn |-> resource.attrVpcIngressConnectionArn,
     vpcIngressConnectionName |-> resource.ref,
     domainName |-> resource.attrDomainName,
     status |-> resource.attrStatus]

NoHandle == [tag |-> "NoHandle"]

\* a plausible slip: the resource is created before the name is validated
RequestsAfterEager(reqs, err, req) == Append(reqs, req)
\* lines 146-168: a throw leaves before the resource is created
RequestsAfter(reqs, err, req) ==
    IF err = NoError THEN Append(reqs, req) ELSE reqs

\* a plausible slip: every call shares one object, the latest replaces it
ReturnedShared(cs, c) == [i \in 1..Len(cs) |-> c] \o <<c>>
\* each call returns a new object; the earlier ones stay as they are
Returned(cs, c) == Append(cs, c)

\* lines 141-174
Construct(props) ==
    LET physicalName == PhysicalName(props.vpcIngressConnectionName)
        err == ValidateName(props.vpcIngressConnectionName)
        req == CfnProps(props, physicalName)
        resource == CfnVpcIngressConnection(req)
    IN  /\ requests' = RequestsAfter(requests, err, req)
        /\ calls' = Returned(calls,
              [op |-> "new", input |-> props, error |-> err,
               handle |-> IF err = NoError THEN ResourceHandle(resource)
                          ELSE NoHandle])

\* ------------------------------------------------------ the two imports
\* a plausible slip: domainName and status exchanged
AttributesHandleSwapped(attrs) ==
    [vpcIngressConnectionArn |-> attrs.vpcIngressConnectionArn,
     domainName |-> attrs.status,
     status |-> attrs.domainName,
     vpcIngressConnectionName |-> attrs.vpcIngressConnectionName]
\* lines 86-96
AttributesHandle(attrs) ==
    [vpcIngressConnectionArn |-> attrs.vpcIngressConnectionArn,
     domainName |-> attrs.domainName,
     status |-> attrs.status,
     vpcIngressConnectionName |-> attrs.vpcIngressConnectionName]

\* lines 85-99
FromVpcIngressConnectionAttributes(attrs) ==
    /\ calls' = Returned(calls,
          [op |-> "fromVpcIngressConnectionAttributes", input |-> attrs,
           error |-> NoError, handle |-> AttributesHandle(attrs)])
    /\ UNCHANGED requests

\* a plausible slip: the wrong separator
ArnNameColon(arn) == FnSelect(0, FnSplit(":", arn))
\* lines 105-107
ArnName(arn) == FnSelect(0, FnSplit("/", arn))

\* lines 109-112: the Import class has no domainName and no status
ArnHandle(arn) ==
    [vpcIngressConnectionName |-> ArnName(arn),
     vpcIngressConnectionArn |-> arn,
     domainName |-> Undefined,
     status |-> Undefined]

\* lines 104-115
FromArn(arn) ==
    /\ calls' = Returned(calls,
          [op |-> "fromArn", input |-> arn,
           error |-> NoError, handle |-> ArnHandle(arn)])
    /\ UNCHANGED requests

\* ------------------------------------------------------------- inputs
ExampleArn ==
    <<"a", "r", "n", ":", "a", "w", "s", ":", "a", "p", "p", "r", "u", "n", "n",
    "e", "r", ":", "u", "s", "-", "e", "a", "s", "t", "-", "1", ":", "1", "2",
    "3", "4", "5", "6", "7", "8", "9", "0", "1", "2", ":", "v", "p", "c", "i",
    "n", "g", "r", "e", "s", "s", "c", "o", "n", "n", "e", "c", "t", "i", "o",
    "n", "/", "m", "y", "c", "o", "n", "n", "/", "a", "b", "c", "d", "1", "2",
    "3", "4">>

NameAlphabet == {"a", "Z", "7", "-", "_", "!"}
ShortNames == SeqsUpTo(NameAlphabet, MaxShortLen)
LongLens == (MaxNameLength - LongSlack)..(MaxNameLength + LongSlack)
LongNames ==
    {h \o Rep(f, n - Len(h) - 1) \o <<t>> :
        h \in SeqsUpTo(NameAlphabet, 1), f \in NameAlphabet,
        t \in NameAlphabet, n \in LongLens}
BroadNames == ShortNames \cup LongNames \cup {<<"V","a","l","i","d","-","N","a","m","e","_","1">>}
BroadNameValues ==
    {Concrete(s) : s \in BroadNames} \cup {Pending(s) : s \in BroadNames}
        \cup {Undefined}

ArnAlphabet == {"a", ":", "/"}
BroadArns == SeqsUpTo(ArnAlphabet, MaxArnLen) \cup {ExampleArn}
BroadArnValues ==
    {Concrete(s) : s \in BroadArns} \cup {Pending(s) : s \in BroadArns}

Services == {[serviceArn |-> "arn:service-A"], [serviceArn |-> "arn:service-B"]}
Vpcs == {[vpcId |-> "vpc-1"]}
Endpoints == {[vpcEndpointId |-> "vpce-1"]}

SmallNameValues ==
    {Concrete(<<"a","b">>), Concrete(<<"-","a","b","c">>),
     Concrete(<<"a","-","_","7">>), Pending(<<"!">>), Undefined}
SmallArnValues ==
    {Concrete(<<"a","/","b">>), Concrete(<<"a","b">>),
     Concrete(<<"/","a">>), Pending(<<"a","/","b">>)}

PropsOver(names, services) ==
    [vpcIngressConnectionName : names, service : services,
     vpc : Vpcs, interfaceVpcEndpoint : Endpoints]
AttrsOver(arns, names, statuses) ==
    [vpcIngressConnectionArn : arns, vpcIngressConnectionName : names,
     domainName : {Concrete(<<"d">>)}, status : statuses]

\* ------------------------------------------------------ the program
Init == calls = <<>> /\ requests = <<>>

New ==
    /\ Len(calls) < MaxCalls
    /\ \E props \in PropsOver(SmallNameValues, Services) : Construct(props)

ImportAttributes ==
    /\ Len(calls) < MaxCalls
    /\ \E attrs \in AttrsOver({Concrete(<<"a","/","b">>), Pending(<<"a">>)},
                              {Concrete(<<"a","b">>), Pending(<<"!">>)},
                              {Concrete(<<"s">>), Concrete(<<"d">>)}) :
          FromVpcIngressConnectionAttributes(attrs)

ImportArn ==
    /\ Len(calls) < MaxCalls
    /\ \E arn \in SmallArnValues : FromArn(arn)

Next == New \/ ImportAttributes \/ ImportArn

Spec == Init /\ [][Next]_vars

\* One call, over the broad input sets.
NewBroad ==
    /\ calls = <<>>
    /\ \E props \in PropsOver(BroadNameValues, {[serviceArn |-> "arn:service-A"]}) :
          Construct(props)

ImportAttributesBroad ==
    /\ calls = <<>>
    /\ \E attrs \in AttrsOver({Concrete(<<"a","/","b">>), Pending(<<"a">>)},
                              {Concrete(s) : s \in SeqsUpTo(NameAlphabet, 2) \cup LongNames}
                                 \cup {Pending(<<"!">>)},
                              {Concrete(<<"s">>), Pending(<<"d">>)}) :
          FromVpcIngressConnectionAttributes(attrs)

ImportArnBroad ==
    /\ calls = <<>>
    /\ \E arn \in BroadArnValues : FromArn(arn)

NextInputs == NewBroad \/ ImportAttributesBroad \/ ImportArnBroad

SpecInputs == Init /\ [][NextInputs]_vars

\* ------------------------------------------------------------ properties
IsNew(c) == c.op = "new"
Succeeded(c) == c.error = NoError /\ c.handle # NoHandle
NameOf(c) == c.input.vpcIngressConnectionName

\* the position in requests of the request of the i-th call, a successful new
RequestIndex(i) ==
    Cardinality({j \in 1..i : IsNew(calls[j]) /\ calls[j].error = NoError})
HasRequest(i) == RequestIndex(i) \in 1..Len(requests)

WellFormedName(s) ==
    /\ Len(s) \in MinNameLength..MaxNameLength
    /\ s[1] \in Letters \cup Digits
    /\ \A k \in 2..Len(s) : s[k] \in Letters \cup Digits \cup {"-", "_"}

\* C1: a concrete name of length 4..40, alphanumeric first character, then
\* alphanumerics, hyphens or underscores: the constructor succeeds and the
\* request's name is the input name.
C1_ValidNameAccepted ==
    \A i \in 1..Len(calls) :
        (IsNew(calls[i]) /\ NameOf(calls[i]).tag = "Concrete"
            /\ WellFormedName(NameOf(calls[i]).val))
        => /\ Succeeded(calls[i])
           /\ HasRequest(i)
           /\ requests[RequestIndex(i)].vpcIngressConnectionName = NameOf(calls[i])

C1_Witness ==
    \E i \in 1..Len(calls) :
        /\ IsNew(calls[i]) /\ NameOf(calls[i]).tag = "Concrete"
        /\ Len(NameOf(calls[i]).val) = MaxNameLength
        /\ WellFormedName(NameOf(calls[i]).val)
        /\ \E k \in 1..MaxNameLength : NameOf(calls[i]).val[k] = "-"
        /\ Succeeded(calls[i])

\* C2: a concrete name shorter than 4 or longer than 40 (the empty string
\* included) fails with InvalidNameLength, also when it breaks the character
\* pattern too; it never gives InvalidNameFormat.
C2_BadLengthRejected ==
    \A i \in 1..Len(calls) :
        (IsNew(calls[i]) /\ NameOf(calls[i]).tag = "Concrete"
            /\ (Len(NameOf(calls[i]).val) < 4 \/ Len(NameOf(calls[i]).val) > 40))
        => /\ calls[i].error.kind = "InvalidNameLength"
           /\ calls[i].handle = NoHandle

C2_Witness ==
    \E i \in 1..Len(calls) :
        /\ IsNew(calls[i]) /\ NameOf(calls[i]) = Concrete(<<"-", "a">>)
        /\ calls[i].error = InvalidNameLength(2)

\* C3: a concrete name of length 4..40 whose first character is not
\* alphanumeric, or which has a character other than alphanumerics, hyphen
\* and underscore, fails with InvalidNameFormat.
C3_BadFormatRejected ==
    \A i \in 1..Len(calls) :
        LET n == NameOf(calls[i]) IN
        (IsNew(calls[i]) /\ n.tag = "Concrete"
            /\ Len(n.val) \in 4..40
            /\ (\/ n.val[1] \notin Letters \cup Digits
                \/ \E k \in 1..Len(n.val) :
                      n.val[k] \notin Letters \cup Digits \cup {"-", "_"}))
        => /\ calls[i].error.kind = "InvalidNameFormat"
           /\ calls[i].handle = NoHandle

C3_Witness ==
    \E i \in 1..Len(calls) :
        /\ IsNew(calls[i]) /\ NameOf(calls[i]) = Concrete(<<"-", "a", "a", "a">>)
        /\ calls[i].error.kind = "InvalidNameFormat"

\* C4: a token name is not validated: the constructor succeeds whatever the
\* token resolves to, and the token itself is the request's name.
C4_TokenNameNotValidated ==
    \A i \in 1..Len(calls) :
        (IsNew(calls[i]) /\ NameOf(calls[i]).tag = "Pending")
        => /\ Succeeded(calls[i])
           /\ HasRequest(i)
           /\ requests[RequestIndex(i)].vpcIngressConnectionName = NameOf(calls[i])

C4_Witness ==
    \E i \in 1..Len(calls) :
        /\ IsNew(calls[i]) /\ NameOf(calls[i]).tag = "Pending"
        /\ Len(NameOf(calls[i]).val) > MaxNameLength
        /\ NameOf(calls[i]).val[1] = "!"
        /\ Succeeded(calls[i])

\* C5: no partial success: a failed constructor call emitted no request and
\* returned no handle, a successful one emitted exactly one; the number of
\* requests is the number of successful constructor calls.
C5_NoPartialSuccess ==
    /\ Len(requests) =
          Cardinality({i \in 1..Len(calls) : IsNew(calls[i]) /\ Succeeded(calls[i])})
    /\ \A i \in 1..Len(calls) :
          /\ calls[i].error # NoError <=> calls[i].handle = NoHandle
          /\ calls[i].error # NoError =>
                calls[i].error.kind \in {"InvalidNameLength", "InvalidNameFormat"}

C5_Witness ==
    /\ Len(requests) = 1
    /\ \E i, j \in 1..Len(calls) :
          /\ i < j
          /\ IsNew(calls[i]) /\ calls[i].error.kind = "InvalidNameLength"
          /\ IsNew(calls[j]) /\ Succeeded(calls[j])

\* C6: fromVpcIngressConnectionAttributes copies the four attributes as
\* they are, whatever they are, raises nothing and emits no request.
C6_AttributesCopied ==
    \A i \in 1..Len(calls) :
        calls[i].op = "fromVpcIngressConnectionAttributes"
        => /\ calls[i].error = NoError
           /\ calls[i].handle.vpcIngressConnectionArn = calls[i].input.vpcIngressConnectionArn
           /\ calls[i].handle.vpcIngressConnectionName = calls[i].input.vpcIngressConnectionName
           /\ calls[i].handle.domainName = calls[i].input.domainName
           /\ calls[i].handle.status = calls[i].input.status
           /\ RequestIndex(i) = RequestIndex(i - 1)
           /\ Len(requests) >= RequestIndex(i)
           /\ (i = Len(calls) => Len(requests) = RequestIndex(i))

C6_Witness ==
    \E i \in 1..Len(calls) :
        /\ calls[i].op = "fromVpcIngressConnectionAttributes"
        /\ calls[i].input.vpcIngressConnectionName.tag = "Concrete"
        /\ Len(calls[i].input.vpcIngressConnectionName.val) > MaxNameLength
        /\ calls[i].input.status.tag = "Pending"
        /\ calls[i].handle.vpcIngressConnectionName = calls[i].input.vpcIngressConnectionName

\* the text of s before its first "/", all of s when it has none
BeforeFirstSlash(s) ==
    LET slashes == {k \in 1..Len(s) : s[k] = "/"}
        first == IF slashes = {} THEN Len(s) + 1
                 ELSE CHOOSE k \in slashes : \A m \in slashes : k <= m
    IN  SubSeq(s, 1, first - 1)

\* C7: fromArn keeps the Arn as it is, takes as name the first segment of
\* the Arn split on "/" (the whole Arn when it has no "/"), leaves domainName
\* and status unset, raises nothing and emits no request.
C7_ArnImport ==
    \A i \in 1..Len(calls) :
        calls[i].op = "fromArn"
        => /\ calls[i].error = NoError
           /\ calls[i].handle.vpcIngressConnectionArn = calls[i].input
           /\ calls[i].handle.vpcIngressConnectionName =
                 [tag |-> calls[i].input.tag, val |-> BeforeFirstSlash(calls[i].input.val)]
           /\ calls[i].handle.domainName = Undefined
           /\ calls[i].handle.status = Undefined
           /\ (i = Len(calls) => Len(requests) = RequestIndex(i))
           /\ (calls[i].input = Concrete(ExampleArn) =>
                 calls[i].handle.vpcIngressConnectionName = Concrete(SubSeq(ExampleArn, 1, 61)))

C7_Witness ==
    \E i \in 1..Len(calls) :
        /\ calls[i].op = "fromArn"
        /\ calls[i].input = Concrete(ExampleArn)
        /\ Len(calls[i].handle.vpcIngressConnectionName.val) = 61
        /\ calls[i].handle.domainName = Undefined

C9_EarlierResultsKept ==
    [][/\ Len(calls') >= Len(calls)
       /\ Len(requests') >= Len(requests)
       /\ \A i \in 1..Len(calls) : calls'[i] = calls[i]
       /\ \A i \in 1..Len(requests) : requests'[i] = requests[i]]_vars

C9_Witness ==
    /\ Len(calls) = 3 /\ Len(requests) = 2
    /\ IsNew(calls[1]) /\ Succeeded(calls[1])
    /\ calls[2].op = "fromArn"
    /\ IsNew(calls[3]) /\ Succeeded(calls[3])
    /\ requests[1] # requests[2]

\* C10: the request of a successful constructor call carries the endpoint's
\* vpcEndpointId, the vpc's vpcId, the service's serviceArn and the given
\* name, or the "assigned name" token when no name is given (which is never
\* an error); the handle's four attributes are the created resource's.
C10_RequestAndHandle ==
    \A i \in 1..Len(calls) :
        LET c == calls[i] IN
        /\ (IsNew(c) /\ NameOf(c) = Undefined) => c.error = NoError
        /\ (IsNew(c) /\ c.error = NoError) =>
              /\ HasRequest(i)
              /\ LET r == requests[RequestIndex(i)]
                     out == CfnVpcIngressConnection(r)
                 IN  /\ r.ingressVpcConfiguration.vpcEndpointId =
                           c.input.interfaceVpcEndpoint.vpcEndpointId
                     /\ r.ingressVpcConfiguration.vpcId = c.input.vpc.vpcId
                     /\ r.serviceArn = c.input.service.serviceArn
                     /\ r.vpcIngressConnectionName =
                           (IF NameOf(c) = Undefined THEN UseAssignedName ELSE NameOf(c))
                     /\ c.handle.vpcIngressConnectionName = out.ref
                     /\ c.handle.vpcIngressConnectionArn = out.attrVpcIngressConnectionArn
                     /\ c.handle.domainName = out.attrDomainName
                     /\ c.handle.status = out.attrStatus

C10_Witness ==
    \E i, j \in 1..Len(calls) :
        /\ i # j
        /\ IsNew(calls[i]) /\ NameOf(calls[i]) = Undefined /\ Succeeded(calls[i])
        /\ IsNew(calls[j]) /\ NameOf(calls[j]).tag = "Concrete" /\ Succeeded(calls[j])
        /\ calls[i].input.service # calls[j].input.service

====
